---- MODULE Spec2Model ----
(***************************************************************************)
(* mc-hook: the item-pickup detector (api/events/itemPickup.js).           *)
(*                                                                         *)
(* The detector keeps a list of listeners { callback, tick, counter }, a   *)
(* cache of per-player inventory snapshots and one recurring host task     *)
(* that polls every online player's inventory.  The host (the game) owns   *)
(* the recurring tasks, the players and their inventory containers.        *)
(***************************************************************************)
EXTENDS Integers, Sequences, FiniteSets, TLC

(* ------------------------------------------------------------------ *)
(* Program constant and the bounds of the model                        *)
(* ------------------------------------------------------------------ *)

DEFAULT_TICK == 10

\* Slots per inventory container (inventory.size).
InvSize == 2
\* Largest amount one slot holds.
MaxStack == 1
\* Listeners registered at most (the list is unbounded in the program).
MaxListeners == 3
\* Listeners scripts register at most where the scheduler is examined.
SchedListeners == 2
\* A poll is taken only while every counter is at most this.
MaxCounter == 15
\* Host time advances only while every listener's age is below this.
MaxAge == 20

\* Listeners registered at most where the fan-out is examined.
FanListeners == 2
\* Largest amount one slot holds where the removal is examined.
MaxAmount == 3
\* Callbacks registered at most with blockBreak.listen.
BreakListeners == 2

Players == <<"p1", "p2">>
PlayerSet == {Players[i] : i \in 1..Len(Players)}
Types == {"A", "B"}
\* The periods listeners ask for.
Ticks == {5, 10, 20}

\* Host time advances in steps of the greatest common divisor of all periods:
\* between two such instants no recurring task can become due.
TickStep ==
  CHOOSE d \in 1..DEFAULT_TICK :
    /\ \A t \in Ticks \cup {DEFAULT_TICK} : t % d = 0
    /\ \A e \in 1..DEFAULT_TICK :
         (\A t \in Ticks \cup {DEFAULT_TICK} : t % e = 0) => e <= d

\* A callback is a script's function: the value registered is "function", and
\* what it does when it is invoked is decided at each invocation: nothing, call
\* actions.remove(), throw, or register a further listener.
Behaviours == {"noop", "remove", "throw", "listen"}

\* An empty slot (getItem returns undefined).
NoItem == [typeId |-> "none", amount |-> 0]
Item(t, n) == [typeId |-> t, amount |-> n]
Slots == {NoItem} \cup {Item(t, n) : t \in Types, n \in 1..MaxStack}
EmptyContainer == [i \in 1..InvSize |-> NoItem]

\* systemIntervalId = null
Null == 0

(* ------------------------------------------------------------------ *)
(* JavaScript Map, kept as the sequence of its entries in insertion    *)
(* order (the order a for-of loop visits them).                        *)
(* ------------------------------------------------------------------ *)

EmptyMap == << >>

MapHas(m, k) == \E i \in 1..Len(m) : m[i].typeId = k

\* m.get(k) || 0
MapGet(m, k) ==
  IF MapHas(m, k)
    THEN LET i == CHOOSE j \in 1..Len(m) : m[j].typeId = k IN m[i].amount
    ELSE 0

\* m.set(k, v): an existing key keeps its position, a new key is appended.
MapSet(m, k, v) ==
  IF MapHas(m, k)
    THEN [i \in 1..Len(m) |-> IF m[i].typeId = k THEN Item(k, v) ELSE m[i]]
    ELSE Append(m, Item(k, v))

(* ------------------------------------------------------------------ *)
(* snapshotInventory                                                   *)
(* ------------------------------------------------------------------ *)

\* The snapshot keeping the amount of the last slot of a type, not the sum.
RECURSIVE snapshotFromOverwrite(_, _, _)
snapshotFromOverwrite(inventory, i, result) ==
  IF i > Len(inventory) THEN result
  ELSE LET item == inventory[i] IN
       IF item # NoItem
         THEN snapshotFromOverwrite(inventory, i + 1,
                MapSet(result, item.typeId, item.amount))
         ELSE snapshotFromOverwrite(inventory, i + 1, result)

RECURSIVE snapshotFrom(_, _, _)
snapshotFrom(inventory, i, result) ==
  IF i > Len(inventory) THEN result
  ELSE LET item == inventory[i] IN
       IF item # NoItem
         THEN snapshotFrom(inventory, i + 1,
                MapSet(result, item.typeId, MapGet(result, item.typeId) + item.amount))
         ELSE snapshotFrom(inventory, i + 1, result)

snapshotInventory(inventory) == snapshotFrom(inventory, 1, EmptyMap)

(* ------------------------------------------------------------------ *)
(* removeItemsFromInventory                                            *)
(*                                                                     *)
(* failSlot is the slot whose setItem the host rejects by throwing     *)
(* (0: every write succeeds).  The result is the container as the      *)
(* call leaves it and whether the call threw.                          *)
(* ------------------------------------------------------------------ *)

\* The removal forgetting that a decremented slot has covered the rest.
RECURSIVE removeFromKeepsRemaining(_, _, _, _, _)
removeFromKeepsRemaining(typeId, remaining, inventory, i, failSlot) ==
  IF ~(i <= Len(inventory) /\ remaining > 0)
    THEN [inventory |-> inventory, threw |-> FALSE]
  ELSE LET item == inventory[i] IN
       IF item # NoItem /\ item.typeId = typeId
         THEN IF i = failSlot
                THEN [inventory |-> inventory, threw |-> TRUE]
              ELSE IF item.amount <= remaining
                THEN removeFromKeepsRemaining(typeId, remaining - item.amount,
                       [inventory EXCEPT ![i] = NoItem], i + 1, failSlot)
                ELSE removeFromKeepsRemaining(typeId, remaining,
                       [inventory EXCEPT ![i] = Item(typeId, item.amount - remaining)],
                       i + 1, failSlot)
         ELSE removeFromKeepsRemaining(typeId, remaining, inventory, i + 1, failSlot)

RECURSIVE removeFrom(_, _, _, _, _)
removeFrom(typeId, remaining, inventory, i, failSlot) ==
  IF ~(i <= Len(inventory) /\ remaining > 0)
    THEN [inventory |-> inventory, threw |-> FALSE]
  ELSE LET item == inventory[i] IN
       IF item # NoItem /\ item.typeId = typeId
         THEN IF i = failSlot
                THEN [inventory |-> inventory, threw |-> TRUE]
              ELSE IF item.amount <= remaining
                THEN removeFrom(typeId, remaining - item.amount,
                                [inventory EXCEPT ![i] = NoItem], i + 1, failSlot)
                ELSE removeFrom(typeId, 0,
                                [inventory EXCEPT ![i] = Item(typeId, item.amount - remaining)],
                                i + 1, failSlot)
         ELSE removeFrom(typeId, remaining, inventory, i + 1, failSlot)

removeItemsFromInventory(typeId, amountToRemove, inventory, failSlot) ==
  removeFrom(typeId, amountToRemove, inventory, 1, failSlot)

(* ------------------------------------------------------------------ *)
(* State                                                               *)
(* ------------------------------------------------------------------ *)

VARIABLES
  listeners,           \* sequence of [tick, counter] (the callback is the index)
  playerCache,         \* function: cached player name -> Map
  systemIntervalId,    \* handle of the recurring poll, or Null
  systemIntervalTick,  \* period the poll is meant to run at
  tasks,               \* host: active recurring tasks, handle -> [period, elapsed]
  nextHandle,          \* host: the handle the next runInterval returns
  inv,                 \* host: player -> inventory container
  online,              \* host: the players world.getPlayers() returns
  sinceFired,          \* observer (a stopwatch and a ledger per listener, when
                       \* they are kept): [age, fired, owed]: host ticks since
                       \* the listener was registered or last invoked, whether
                       \* it ever was, and the amount gain records have held
                       \* since its registration less the amount handed to it
  records,             \* observer: the gain records the last poll produced
  log,                 \* observer: the callback invocations of the last poll
  last,                \* observer: the last operation and how it ended
  away,                \* observer: the cached players some poll has not seen
                       \* since their snapshot was taken
  bbListeners,         \* blockBreak.js: the callbacks registered (listeners)
  subscriptions        \* host: the handlers subscribed to playerBreakBlock

vars == << listeners, playerCache, systemIntervalId, systemIntervalTick, tasks,
           nextHandle, inv, online, sinceFired, records, log, last, away,
           bbListeners, subscriptions >>

\* The state of blockBreak.js and its subscription.
bbvars == << bbListeners, subscriptions >>

\* The program and host state an operation reads and writes, as one record.
State ==
  [listeners |-> listeners, playerCache |-> playerCache,
   systemIntervalId |-> systemIntervalId, systemIntervalTick |-> systemIntervalTick,
   tasks |-> tasks, nextHandle |-> nextHandle, inv |-> inv, sinceFired |-> sinceFired,
   records |-> << >>, log |-> << >>, threw |-> FALSE]

(* ------------------------------------------------------------------ *)
(* Host scheduler: system.runInterval / system.clearRun                *)
(* ------------------------------------------------------------------ *)

runInterval(ts, h, period) ==
  [k \in DOMAIN ts \cup {h} |-> IF k = h THEN [period |-> period, elapsed |-> 0] ELSE ts[k]]

clearRun(ts, h) == [k \in DOMAIN ts \ {h} |-> ts[k]]

(* ------------------------------------------------------------------ *)
(* startSystemInterval, adjustSystemInterval, listen                   *)
(* ------------------------------------------------------------------ *)

startSystemInterval(s) ==
  IF s.systemIntervalId # Null THEN s
  ELSE LET h == s.nextHandle IN
       [s EXCEPT !.systemIntervalId = h,
                 !.nextHandle = h + 1,
                 !.tasks = runInterval(s.tasks, h, s.systemIntervalTick)]

\* listeners.reduce((min, listener) => Math.min(listener.tick, min), DEFAULT_TICK)
RECURSIVE reduceMin(_, _, _)
reduceMin(ls, i, min) ==
  IF i > Len(ls) THEN min
  ELSE reduceMin(ls, i + 1, IF ls[i].tick < min THEN ls[i].tick ELSE min)

\* adjustSystemInterval restarting the poll without cancelling the old task.
adjustSystemIntervalNoClear(s) ==
  LET minTick == reduceMin(s.listeners, 1, DEFAULT_TICK) IN
  IF minTick # s.systemIntervalTick
    THEN LET s1 == [s EXCEPT !.systemIntervalTick = minTick] IN
         IF s1.systemIntervalId # Null
           THEN startSystemInterval([s1 EXCEPT !.systemIntervalId = Null])
           ELSE s1
    ELSE s

\* adjustSystemInterval restarting the poll whether or not the minimum changed.
adjustSystemIntervalAlways(s) ==
  LET minTick == reduceMin(s.listeners, 1, DEFAULT_TICK)
      s1 == [s EXCEPT !.systemIntervalTick = minTick]
  IN IF s1.systemIntervalId # Null
       THEN startSystemInterval(
              [s1 EXCEPT !.tasks = clearRun(s1.tasks, s1.systemIntervalId),
                         !.systemIntervalId = Null])
       ELSE s1

\* adjustSystemInterval taking the new period without restarting the poll.
adjustSystemIntervalNoRestart(s) ==
  LET minTick == reduceMin(s.listeners, 1, DEFAULT_TICK) IN
  IF minTick # s.systemIntervalTick
    THEN [s EXCEPT !.systemIntervalTick = minTick]
    ELSE s

adjustSystemInterval(s) ==
  LET minTick == reduceMin(s.listeners, 1, DEFAULT_TICK) IN
  IF minTick # s.systemIntervalTick
    THEN LET s1 == [s EXCEPT !.systemIntervalTick = minTick] IN
         IF s1.systemIntervalId # Null
           THEN startSystemInterval(
                  [s1 EXCEPT !.tasks = clearRun(s1.tasks, s1.systemIntervalId),
                             !.systemIntervalId = Null])
           ELSE s1
    ELSE s

\* The tick argument of listen: absent (the default applies) or a number, kept
\* as twice its value so that a non-integer (2.5 is 5) can be told apart.
NoTick == [given |-> FALSE, twice |-> 0]
Num(n) == [given |-> TRUE, twice |-> 2 * n]
Half(n) == [given |-> TRUE, twice |-> n]
IsInteger(a) == a.twice % 2 = 0

\* listen appending the listener before it validates the period.
listenPushFirst(s, callback, tickArg) ==
  LET tick == IF tickArg.given THEN tickArg ELSE Num(DEFAULT_TICK) IN
  IF callback # "function"
    THEN [s EXCEPT !.threw = TRUE]
  ELSE LET s1 == [s EXCEPT
                    !.listeners = Append(@, [tick |-> tick.twice \div 2,
                                             counter |-> 0]),
                    !.sinceFired = Append(@, [age |-> 0, fired |-> FALSE, owed |-> 0])]
       IN IF ~IsInteger(tick) \/ tick.twice < 2
            THEN [s1 EXCEPT !.threw = TRUE]
            ELSE startSystemInterval(adjustSystemInterval(s1))

\* listen leaving the poll as it is: it does not call startSystemInterval.
listenNoStart(s, callback, tickArg) ==
  LET tick == IF tickArg.given THEN tickArg ELSE Num(DEFAULT_TICK) IN
  IF callback # "function"
    THEN [s EXCEPT !.threw = TRUE]
  ELSE IF ~IsInteger(tick) \/ tick.twice < 2
    THEN [s EXCEPT !.threw = TRUE]
  ELSE adjustSystemInterval(
         [s EXCEPT
            !.listeners = Append(@, [tick |-> tick.twice \div 2, counter |-> 0]),
            !.sinceFired = Append(@, [age |-> 0, fired |-> FALSE, owed |-> 0])])

\* this.listen(callback, tick = DEFAULT_TICK); threw tells whether it threw.
listen(s, callback, tickArg) ==
  LET tick == IF tickArg.given THEN tickArg ELSE Num(DEFAULT_TICK) IN
  IF callback # "function"
    THEN [s EXCEPT !.threw = TRUE]
  ELSE IF ~IsInteger(tick) \/ tick.twice < 2
    THEN [s EXCEPT !.threw = TRUE]
  ELSE LET s1 == [s EXCEPT
                    !.listeners = Append(@, [tick |-> tick.twice \div 2,
                                             counter |-> 0]),
                    !.sinceFired = Append(@, [age |-> 0, fired |-> FALSE, owed |-> 0])]
       IN startSystemInterval(adjustSystemInterval(s1))

(* ------------------------------------------------------------------ *)
(* The poll: the callback given to system.runInterval                  *)
(*                                                                     *)
(* env holds what the host and the callbacks decide during one poll:   *)
(* does (what each listener's callback does if it is invoked),         *)
(* failSlot (the slot whose setItem throws, 0 for none) and nestedTick *)
(* (the period a "listen" callback registers its new listener with),   *)
(* and observe (whether the observer keeps its stopwatches).           *)
(* ------------------------------------------------------------------ *)

\* actions.remove() without the try/catch: the failure reaches the callback,
\* which lets it through.
removeNoCatch(s, p, typeId, pickedUpAmount, env) ==
  LET r == removeItemsFromInventory(typeId, pickedUpAmount, s.inv[p], env.failSlot)
  IN [s EXCEPT !.inv[p] = r.inventory, !.threw = r.threw]

\* actions.remove(): the failure of the removal is caught and logged.
remove(s, p, typeId, pickedUpAmount, env) ==
  LET r == removeItemsFromInventory(typeId, pickedUpAmount, s.inv[p], env.failSlot)
  IN [s EXCEPT !.inv[p] = r.inventory]

\* listener.callback(data, actions) of listener i, by what the callback does.
callback(s, i, p, typeId, amount, env) ==
  LET cb == env.does[i] IN
  CASE cb = "noop"   -> s
    [] cb = "remove" -> remove(s, p, typeId, amount, env)
    [] cb = "throw"  -> [s EXCEPT !.threw = TRUE]
    [] cb = "listen" -> listen(s, "function", Num(env.nestedTick))

\* The invocation as the observer records it.
Invocation(s, i, p, typeId, amount, env) ==
  [listener |-> i, player |-> p, typeId |-> typeId, amount |-> amount,
   age |-> s.sinceFired[i].age, again |-> s.sinceFired[i].fired,
   did |-> env.does[i],
   writeFailed |->
     /\ env.does[i] = "remove"
     /\ removeItemsFromInventory(typeId, amount, s.inv[p], env.failSlot).threw]

\* listeners.forEach(...) of the fan-out, from listener i on; n is the length
\* of the list when forEach was called (later elements are not visited).  An
\* exception leaves the loop, and the counter of the throwing listener as it is.
RECURSIVE fanOut(_, _, _, _, _, _, _)
fanOut(s, i, n, p, typeId, amount, env) ==
  IF i > n THEN s
  ELSE LET listener == s.listeners[i] IN
       IF listener.counter >= listener.tick
         THEN LET s1 == [s EXCEPT
                           !.log = Append(@, Invocation(s, i, p, typeId, amount, env)),
                           !.sinceFired[i] = IF env.observe
                                               THEN [age |-> 0, fired |-> TRUE,
                                                     owed |-> @.owed - amount]
                                               ELSE @]
                  s2 == callback(s1, i, p, typeId, amount, env)
              IN IF s2.threw THEN s2
                 ELSE fanOut([s2 EXCEPT !.listeners[i].counter = 0],
                             i + 1, n, p, typeId, amount, env)
         ELSE fanOut(s, i + 1, n, p, typeId, amount, env)

\* for (const [typeId, amount] of current) { ... }, from entry k on.
RECURSIVE forEachEntry(_, _, _, _, _, _)
forEachEntry(s, p, current, previous, k, env) ==
  IF k > Len(current) \/ s.threw THEN s
  ELSE LET typeId == current[k].typeId
           amount == current[k].amount
           oldAmount == MapGet(previous, typeId)
       IN IF amount <= oldAmount
            THEN forEachEntry(s, p, current, previous, k + 1, env)
            ELSE LET pickedUpAmount == amount - oldAmount
                     data == [player |-> p, typeId |-> typeId, amount |-> pickedUpAmount]
                     s1 == [s EXCEPT
                             !.records = Append(@, data),
                             !.sinceFired =
                               IF env.observe
                                 THEN [j \in 1..Len(@) |->
                                        [@[j] EXCEPT !.owed = @ + pickedUpAmount]]
                                 ELSE @]
                 IN forEachEntry(
                      fanOut(s1, 1, Len(s1.listeners), p, typeId, pickedUpAmount, env),
                      p, current, previous, k + 1, env)

\* playerCache.get(name) || new Map()
CacheGet(cache, name) == IF name \in DOMAIN cache THEN cache[name] ELSE EmptyMap

\* playerCache.set creating an entry but never overwriting one.
CacheSetIfAbsent(cache, name, current) ==
  IF name \in DOMAIN cache
    THEN cache
    ELSE [k \in DOMAIN cache \cup {name} |-> IF k = name THEN current ELSE cache[k]]

\* playerCache.set(name, current)
CacheSet(cache, name, current) ==
  [k \in DOMAIN cache \cup {name} |-> IF k = name THEN current ELSE cache[k]]

\* for (const player of players) { ... }, from player j on.
RECURSIVE forEachPlayer(_, _, _, _)
forEachPlayer(s, players, j, env) ==
  IF j > Len(players) \/ s.threw THEN s
  ELSE LET p == players[j]
           current == snapshotInventory(s.inv[p])
           previous == CacheGet(s.playerCache, p)
           s1 == forEachEntry(s, p, current, previous, 1, env)
       IN IF s1.threw THEN s1
          ELSE forEachPlayer([s1 EXCEPT !.playerCache = CacheSet(@, p, current)],
                             players, j + 1, env)

\* listeners.forEach((listener) => { listener.counter += systemIntervalTick })
advanceCounters(s) ==
  [s EXCEPT !.listeners =
     [i \in 1..Len(@) |-> [@[i] EXCEPT !.counter = @ + s.systemIntervalTick]]]

\* world.getPlayers()
getPlayers(on) == SelectSeq(Players, LAMBDA p : p \in on)

\* The poll callback dropping the cache entries of the players it did not see.
pollPurging(s, players, env) ==
  LET s1 == forEachPlayer(advanceCounters(s), players, 1, env)
      seen == {players[j] : j \in 1..Len(players)}
  IN [s1 EXCEPT !.playerCache = [k \in DOMAIN @ \cap seen |-> @[k]]]

\* One run of the poll callback.
poll(s, players, env) == forEachPlayer(advanceCounters(s), players, 1, env)

(* ------------------------------------------------------------------ *)
(* blockBreak.js                                                       *)
(*                                                                     *)
(* env holds what the callbacks and the host decide during one event:  *)
(* does (what each callback does when it is invoked: nothing, call     *)
(* actions.restore(), throw, or register a further callback) and       *)
(* commandFails (whether dimension.runCommand throws).                 *)
(* ------------------------------------------------------------------ *)

BlockIds == {"stone", "dirt"}
Locations == {[x |-> 0, y |-> 64, z |-> 0], [x |-> 1, y |-> 64, z |-> 0]}
Undefined == "undefined"

\* The events the host raises: itemStackAfterBreak is NoItem when the player
\* broke the block with an empty hand.
Events ==
  [player : PlayerSet, brokenBlockPermutation : BlockIds, location : Locations,
   itemStackAfterBreak : {NoItem, Item("A", 1)}]

BreakBehaviours == {"noop", "restore", "throw", "listen"}

\* this.listen(callback) of blockBreak.js
bbListen(ls, cb) ==
  IF cb # "function"
    THEN [listeners |-> ls, threw |-> TRUE]
    ELSE [listeners |-> Append(ls, cb), threw |-> FALSE]

\* const data = { player, blockId, location, dimension, toolTypeId }
BreakData(event) ==
  [player |-> event.player,
   blockId |-> event.brokenBlockPermutation,
   location |-> event.location,
   toolTypeId |-> IF event.itemStackAfterBreak # NoItem
                    THEN event.itemStackAfterBreak.typeId
                    ELSE Undefined]

\* actions.restore(): the setblock command is issued, and its failure is caught.
restore(s, data, env) ==
  IF env.commandFails
    THEN s
    ELSE [s EXCEPT !.commands =
            Append(@, [setblock |-> data.location, blockId |-> data.blockId])]

\* listeners.forEach((listener) => listener(data, actions)), from callback i on;
\* n is the length of the list when forEach was called.
RECURSIVE bbForEach(_, _, _, _, _)
bbForEach(s, i, n, data, env) ==
  IF i > n THEN s
  ELSE LET s1 == [s EXCEPT !.log = Append(@, [listener |-> i, data |-> data,
                                              did |-> env.does[i]])]
           s2 == CASE env.does[i] = "noop"    -> s1
                   [] env.does[i] = "restore" -> restore(s1, data, env)
                   [] env.does[i] = "throw"   -> [s1 EXCEPT !.threw = TRUE]
                   [] env.does[i] = "listen"  ->
                        [s1 EXCEPT !.listeners = bbListen(@, "function").listeners]
       IN IF s2.threw THEN s2 ELSE bbForEach(s2, i + 1, n, data, env)

handleBlockBreak(s, event, env) ==
  bbForEach(s, 1, Len(s.listeners), BreakData(event), env)

\* The host calls every subscribed handler with the event, from handler k on;
\* an exception of one handler does not keep the host from calling the next.
RECURSIVE dispatch(_, _, _, _)
dispatch(s, k, event, env) ==
  IF k > subscriptions THEN s
  ELSE LET s1 == handleBlockBreak([s EXCEPT !.threw = FALSE], event, env)
       IN dispatch([s1 EXCEPT !.threw = s.threw \/ s1.threw], k + 1, event, env)

(* ------------------------------------------------------------------ *)
(* httpReq (index.js)                                                  *)
(*                                                                     *)
(* A JavaScript object is a record over the keys of the configuration; *)
(* a key the object does not have holds Absent.  A string that is      *)
(* converted (the method) is the sequence of its characters.           *)
(* ------------------------------------------------------------------ *)

\* Every JavaScript value is a record that tells its type.
Absent == [undefined |-> TRUE]
JsNull == [null |-> TRUE]
Str(text) == [string |-> text]
Chars(cs) == [chars |-> cs]
Object == [key |-> "value"]
Headers(es) == [entries |-> es]

LowerCase == <<"a", "c", "d", "e", "g", "h", "l", "o", "p", "s", "t", "u">>
UpperCase == <<"A", "C", "D", "E", "G", "H", "L", "O", "P", "S", "T", "U">>

\* String.prototype.toUpperCase
toUpperCase(str) ==
  Chars([i \in 1..Len(str.chars) |->
           IF \E j \in 1..Len(LowerCase) : LowerCase[j] = str.chars[i]
             THEN UpperCase[CHOOSE j \in 1..Len(LowerCase) : LowerCase[j] = str.chars[i]]
             ELSE str.chars[i]])

\* The method strings of the switch.
GET == Chars(<<"G", "E", "T">>)
POST == Chars(<<"P", "O", "S", "T">>)
PUT == Chars(<<"P", "U", "T">>)
DELETE == Chars(<<"D", "E", "L", "E", "T", "E">>)
HEAD == Chars(<<"H", "E", "A", "D">>)

ConfigKeys == {"url", "method", "body", "data", "headers"}

\* { ...base, ...config }: the keys config has override those of base.
Spread(base, config) ==
  [k \in ConfigKeys |-> IF config[k] # Absent THEN config[k] ELSE base[k]]

EmptyObject == [k \in ConfigKeys |-> Absent]

\* JSON.stringify(body) of an object: the JSON text of it.
Stringify(obj) == [json |-> obj]

\* headers[name]
HeaderValue(headers, name) ==
  IF \E i \in 1..Len(headers.entries) : headers.entries[i].key = name
    THEN headers.entries[CHOOSE i \in 1..Len(headers.entries) :
                           headers.entries[i].key = name].value
    ELSE Absent

NoRequest == [sent |-> FALSE]

\* What http.request does with the request: it rejects, or it resolves with a
\* response whose body is empty, JSON text, or text that is no JSON.
Rejects == [rejects |-> TRUE]
Responses == {Rejects, Str(""), Stringify(Object), Str("no json")}

\* httpReq(config)
httpReq(config, response) ==
  LET url == config.url
      method == IF config.method # Absent THEN config.method ELSE GET
      body == IF config.body # Absent THEN config.body ELSE config.data
      headers == IF config.headers # Absent THEN config.headers ELSE Headers(<< >>)
  IN
  IF url = Absent \/ url = Str("")
    THEN [request |-> NoRequest, threw |-> TRUE, error |-> "URL is required",
          result |-> Absent]
  ELSE
    LET upper == toUpperCase(method)
        requestMethod ==
          CASE upper = GET -> "Get"
            [] upper = POST -> "Post"
            [] upper = PUT -> "Put"
            [] upper = DELETE -> "Delete"
            [] upper = HEAD -> "Head"
            [] OTHER -> "Get"
        hasBody == body # Absent /\ body # JsNull
        requestBody ==
          IF ~hasBody THEN Absent
          ELSE IF body = Object THEN Stringify(body) ELSE body
        headers1 ==
          IF /\ hasBody
             /\ body = Object
             /\ HeaderValue(headers, "Content-Type") = Absent
             /\ HeaderValue(headers, "content-type") = Absent
            THEN Headers(Append(headers.entries,
                                [key |-> "Content-Type", value |-> Str("application/json")]))
            ELSE headers
        request == [sent |-> TRUE, url |-> url, method |-> requestMethod,
                    body |-> requestBody,
                    headers |-> IF Len(headers1.entries) > 0 THEN headers1 ELSE Absent]
    IN
    IF response = Rejects
      THEN [request |-> request, threw |-> TRUE, error |-> "HTTP request failed",
            result |-> Absent]
    ELSE IF response = Str("")
      THEN [request |-> request, threw |-> FALSE, error |-> "none",
            result |-> [status |-> "status", data |-> JsNull]]
    ELSE IF response = Stringify(Object)
      THEN [request |-> request, threw |-> FALSE, error |-> "none",
            result |-> [status |-> "status", data |-> response.json]]
    ELSE [request |-> request, threw |-> TRUE, error |-> "HTTP request failed",
          result |-> Absent]

\* httpReq.get / .post / .put / .delete / .head
httpReqGet(url, config, response) ==
  httpReq(Spread([EmptyObject EXCEPT !.url = url, !.method = GET], config), response)

httpReqPost(url, body, config, response) ==
  httpReq(Spread([EmptyObject EXCEPT !.url = url, !.method = POST, !.body = body],
                 config), response)

httpReqPut(url, body, config, response) ==
  httpReq(Spread([EmptyObject EXCEPT !.url = url, !.method = PUT, !.body = body],
                 config), response)

httpReqDelete(url, config, response) ==
  httpReq(Spread([EmptyObject EXCEPT !.url = url, !.method = DELETE], config), response)

httpReqHead(url, config, response) ==
  httpReq(Spread([EmptyObject EXCEPT !.url = url, !.method = HEAD], config), response)

(* ------------------------------------------------------------------ *)
(* Initial state: the module has been loaded, nothing is registered,   *)
(* nobody is online.                                                   *)
(* ------------------------------------------------------------------ *)

Init ==
  /\ listeners = << >>
  /\ playerCache = << >>
  /\ systemIntervalId = Null
  /\ systemIntervalTick = DEFAULT_TICK
  /\ tasks = << >>
  /\ nextHandle = 1
  /\ inv = [p \in PlayerSet |-> EmptyContainer]
  /\ online = {}
  /\ sinceFired = << >>
  /\ records = << >>
  /\ log = << >>
  /\ last = [op |-> "init", threw |-> FALSE]
  /\ away = {}
  /\ bbListeners = << >>
  /\ subscriptions = 1

(* ------------------------------------------------------------------ *)
(* Operations of the program                                           *)
(* ------------------------------------------------------------------ *)

\* The program state of s becomes the next state.
Becomes(s) ==
  /\ listeners' = s.listeners
  /\ playerCache' = s.playerCache
  /\ systemIntervalId' = s.systemIntervalId
  /\ systemIntervalTick' = s.systemIntervalTick
  /\ nextHandle' = s.nextHandle
  /\ inv' = s.inv
  /\ sinceFired' = s.sinceFired
  /\ records' = s.records
  /\ log' = s.log

\* A script calls itemPickup.listen(callback, tick).
Listen(cb, tickArg) ==
  /\ \E s \in {listen(State, cb, tickArg)} :
       /\ Becomes(s)
       /\ tasks' = s.tasks
       /\ last' = [op |-> "listen", threw |-> s.threw]
  /\ UNCHANGED << online, away, bbvars >>

\* Some online player holds more of some type than the cache says.
SomeGain ==
  \E p \in online :
    LET current == snapshotInventory(inv[p]) IN
    \E k \in 1..Len(current) :
      current[k].amount > MapGet(CacheGet(playerCache, p), current[k].typeId)

\* The listeners a poll taken now can invoke: something was gained and the
\* counter reaches the period in this poll.
Eligible ==
  IF SomeGain
    THEN {i \in 1..Len(listeners) :
            listeners[i].counter + systemIntervalTick >= listeners[i].tick}
    ELSE {}

\* The host runs the recurring task h, which is due.  What happens during the
\* poll is drawn here: what each callback that can be invoked does (one of bs,
\* or nothing), the slot whose write fails if something is removed, and the
\* period of the listener a callback registers.
Poll(h, bs, observe) ==
  /\ h \in DOMAIN tasks
  /\ tasks[h].elapsed >= tasks[h].period
  /\ \A i \in 1..Len(listeners) : listeners[i].counter <= MaxCounter
  /\ \E el \in {Eligible} :
     \E d \in {d \in [1..Len(listeners) -> bs \cup {"noop"}] :
                 \A i \in 1..Len(listeners) : i \notin el => d[i] = "noop"} :
     \E f \in IF \E i \in el : d[i] = "remove" THEN 0..InvSize ELSE {0} :
     \E t \in IF \E i \in el : d[i] = "listen" THEN Ticks ELSE {DEFAULT_TICK} :
     \E s \in {poll(State, getPlayers(online),
                    [does |-> d, failSlot |-> f, nestedTick |-> t,
                     observe |-> observe])} :
        /\ Len(s.listeners) <= MaxListeners
        /\ Becomes(s)
        /\ tasks' = IF h \in DOMAIN s.tasks
                      THEN [s.tasks EXCEPT ![h].elapsed = 0]
                      ELSE s.tasks
        /\ last' = [op |-> "poll", threw |-> s.threw,
                    returned |-> away \cap online]
        /\ away' = IF s.threw
                     THEN away \cup (DOMAIN playerCache \ online)
                     ELSE (away \cup DOMAIN playerCache) \ online
  /\ UNCHANGED << online, bbvars >>

(* ------------------------------------------------------------------ *)
(* Operations of the host                                              *)
(* ------------------------------------------------------------------ *)

Saturate(n) == IF n > MaxAge THEN MaxAge ELSE n

\* d ticks of host time pass; no task is due before they have passed.
Advance(d, observe) ==
  /\ tasks # << >>
  /\ d > 0
  /\ \A h \in DOMAIN tasks : tasks[h].elapsed + d <= tasks[h].period
  /\ tasks' = [h \in DOMAIN tasks |-> [tasks[h] EXCEPT !.elapsed = @ + d]]
  /\ sinceFired' = IF observe
                     THEN [i \in 1..Len(sinceFired) |->
                            [sinceFired[i] EXCEPT !.age = Saturate(@ + d)]]
                     ELSE sinceFired
  /\ records' = << >>
  /\ log' = << >>
  /\ last' = [op |-> "advance", threw |-> FALSE]
  /\ UNCHANGED << listeners, playerCache, systemIntervalId, systemIntervalTick,
                  nextHandle, inv, online, away,
                  bbListeners, subscriptions >>

\* Player p gains one item of type t in slot i.
Pickup(p, i, t) ==
  /\ p \in online
  /\ \/ inv[p][i] = NoItem /\ inv' = [inv EXCEPT ![p][i] = Item(t, 1)]
     \/ /\ inv[p][i].typeId = t
        /\ inv[p][i].amount < MaxStack
        /\ inv' = [inv EXCEPT ![p][i].amount = @ + 1]
  /\ records' = << >>
  /\ log' = << >>
  /\ last' = [op |-> "pickup", threw |-> FALSE]
  /\ UNCHANGED << listeners, playerCache, systemIntervalId, systemIntervalTick,
                  tasks, nextHandle, online, sinceFired, away,
                  bbListeners, subscriptions >>

\* Player p loses one item from slot i.
Drop(p, i) ==
  /\ p \in online
  /\ inv[p][i] # NoItem
  /\ inv' = [inv EXCEPT ![p][i] = IF @.amount = 1 THEN NoItem
                                   ELSE Item(@.typeId, @.amount - 1)]
  /\ records' = << >>
  /\ log' = << >>
  /\ last' = [op |-> "drop", threw |-> FALSE]
  /\ UNCHANGED << listeners, playerCache, systemIntervalId, systemIntervalTick,
                  tasks, nextHandle, online, sinceFired, away,
                  bbListeners, subscriptions >>

Join(p) ==
  /\ p \notin online
  /\ online' = online \cup {p}
  /\ records' = << >>
  /\ log' = << >>
  /\ last' = [op |-> "join", threw |-> FALSE]
  /\ UNCHANGED << listeners, playerCache, systemIntervalId, systemIntervalTick,
                  tasks, nextHandle, inv, sinceFired, away,
                  bbListeners, subscriptions >>

Leave(p) ==
  /\ p \in online
  /\ online' = online \ {p}
  /\ records' = << >>
  /\ log' = << >>
  /\ last' = [op |-> "leave", threw |-> FALSE]
  /\ UNCHANGED << listeners, playerCache, systemIntervalId, systemIntervalTick,
                  tasks, nextHandle, inv, sinceFired, away,
                  bbListeners, subscriptions >>

\* A script calls blockBreak.listen(callback).
BreakListen(cb) ==
  /\ \E r \in {bbListen(bbListeners, cb)} :
       /\ bbListeners' = r.listeners
       /\ last' = [op |-> "breakListen", threw |-> r.threw]
  /\ records' = << >>
  /\ log' = << >>
  /\ UNCHANGED << listeners, playerCache, systemIntervalId, systemIntervalTick,
                  tasks, nextHandle, inv, online, sinceFired, away, subscriptions >>

\* A player breaks a block: the host raises playerBreakBlock.
BreakBlock(event, does, commandFails) ==
  /\ \E s \in {dispatch([listeners |-> bbListeners, log |-> << >>,
                          commands |-> << >>, threw |-> FALSE],
                         1, event, [does |-> does, commandFails |-> commandFails])} :
       /\ Len(s.listeners) <= BreakListeners
       /\ bbListeners' = s.listeners
       /\ log' = s.log
       /\ last' = [op |-> "break", threw |-> s.threw, event |-> event,
                   commands |-> s.commands, commandFails |-> commandFails]
  /\ records' = << >>
  /\ UNCHANGED << listeners, playerCache, systemIntervalId, systemIntervalTick,
                  tasks, nextHandle, inv, online, sinceFired, away, subscriptions >>

\* The call of httpReq or of one of its helpers that a script has made runs:
\* the outcome is what the promise settles with.
Http ==
  /\ last.op = "call"
  /\ \E r \in {CASE last.helper = "httpReq" -> httpReq(last.config, last.response)
                  [] last.helper = "get" ->
                       httpReqGet(last.url, last.config, last.response)
                  [] last.helper = "post" ->
                       httpReqPost(last.url, last.body, last.config, last.response)
                  [] last.helper = "put" ->
                       httpReqPut(last.url, last.body, last.config, last.response)
                  [] last.helper = "delete" ->
                       httpReqDelete(last.url, last.config, last.response)
                  [] last.helper = "head" ->
                       httpReqHead(last.url, last.config, last.response)} :
       last' = [op |-> "http", helper |-> last.helper, url |-> last.url,
                config |-> last.config, threw |-> r.threw, error |-> r.error,
                request |-> r.request, result |-> r.result]
  /\ records' = << >>
  /\ log' = << >>
  /\ UNCHANGED << listeners, playerCache, systemIntervalId, systemIntervalTick,
                  tasks, nextHandle, inv, online, sinceFired, away,
                  bbListeners, subscriptions >>

(* ------------------------------------------------------------------ *)
(* Specification                                                       *)
(* ------------------------------------------------------------------ *)

\* The arguments scripts call listen with: the rejected ones are a value that
\* is no function, and the periods 0, -5 and 2.5.
CallbackArgs == {"function", "notAFunction"}
TickArgs == {NoTick} \cup {Num(t) : t \in Ticks} \cup {Num(0), Num(-5), Half(5)}

Next ==
  \/ \E cb \in CallbackArgs, tickArg \in TickArgs :
       Len(listeners) < MaxListeners /\ Listen(cb, tickArg)
  \/ \E h \in DOMAIN tasks : Poll(h, Behaviours, TRUE)
  \/ Advance(TickStep, TRUE)
  \/ \E p \in PlayerSet, i \in 1..InvSize, t \in Types : Pickup(p, i, t)
  \/ \E p \in PlayerSet, i \in 1..InvSize : Drop(p, i)
  \/ \E p \in PlayerSet : Join(p)
  \/ \E p \in PlayerSet : Leave(p)

Spec == Init /\ [][Next]_vars

\* As Init, with the first player online when the module is loaded.
InitOnline ==
  /\ listeners = << >>
  /\ playerCache = << >>
  /\ systemIntervalId = Null
  /\ systemIntervalTick = DEFAULT_TICK
  /\ tasks = << >>
  /\ nextHandle = 1
  /\ inv = [p \in PlayerSet |-> EmptyContainer]
  /\ online = {"p1"}
  /\ sinceFired = << >>
  /\ records = << >>
  /\ log = << >>
  /\ last = [op |-> "init", threw |-> FALSE]
  /\ away = {}
  /\ bbListeners = << >>
  /\ subscriptions = 1

\* The scheduler under every registration, valid or rejected, with one player
\* who gains items of one type.
NextSched ==
  \/ \E cb \in CallbackArgs, tickArg \in TickArgs :
       Len(listeners) < SchedListeners /\ Listen(cb, tickArg)
  \/ \E h \in DOMAIN tasks : Poll(h, {"listen", "throw"}, FALSE)
  \/ \E d \in Ticks : Advance(d, FALSE)
  \/ Pickup("p1", 1, "A")

SpecSched == InitOnline /\ [][NextSched]_vars

\* The fan-out under the gains of two players, the second of whom comes and
\* goes, with listeners of the default period and of period 20.
NextFan ==
  \/ \E tickArg \in {NoTick, Num(20)} :
       Len(listeners) < FanListeners /\ Listen("function", tickArg)
  \/ \E h \in DOMAIN tasks : Poll(h, {"remove", "throw"}, FALSE)
  \/ Advance(systemIntervalTick, FALSE)
  \/ \E i \in 1..InvSize, t \in Types : Pickup("p1", i, t)
  \/ Pickup("p2", 1, "A")
  \/ Join("p2")
  \/ Leave("p2")

SpecFan == InitOnline /\ [][NextFan]_vars

\* One player picking up items of one type.
NextGain ==
  \/ \E tickArg \in {NoTick, Num(20)} :
       Len(listeners) < FanListeners /\ Listen("function", tickArg)
  \/ \E h \in DOMAIN tasks : Poll(h, {"remove", "throw"}, FALSE)
  \/ Advance(systemIntervalTick, FALSE)
  \/ \E i \in 1..InvSize : Pickup("p1", i, "A")

SpecGain == InitOnline /\ [][NextGain]_vars

\* The cache under two players who gain items of one type in one slot, the
\* second of whom comes and goes.
NextCache ==
  \/ \E tickArg \in {NoTick, Num(20)} :
       Len(listeners) < FanListeners /\ Listen("function", tickArg)
  \/ \E h \in DOMAIN tasks : Poll(h, {"remove", "throw"}, FALSE)
  \/ Advance(systemIntervalTick, FALSE)
  \/ Pickup("p1", 1, "A")
  \/ Pickup("p2", 1, "A")
  \/ Join("p2")
  \/ Leave("p2")

SpecCache == InitOnline /\ [][NextCache]_vars

\* The listeners' periods against host time: listeners of every period, whose
\* callbacks may throw, and one player who gains items of one type.
NextTime ==
  \/ \E t \in Ticks :
       Len(listeners) < MaxListeners /\ Listen("function", Num(t))
  \/ \E h \in DOMAIN tasks : Poll(h, {"throw"}, TRUE)
  \/ Advance(TickStep, TRUE)
  \/ \E i \in 1..InvSize : Pickup("p1", i, "A")

SpecTime == InitOnline /\ [][NextTime]_vars

\* What each listener is handed against what the polls detect: listeners of
\* the default period and of period 20 whose callbacks do nothing, and one
\* player who gains items of one type.
NextLedger ==
  \/ \E tickArg \in {NoTick, Num(20)} :
       Len(listeners) < FanListeners /\ Listen("function", tickArg)
  \/ \E h \in DOMAIN tasks : Poll(h, {"noop"}, TRUE)
  \/ Advance(systemIntervalTick, TRUE)
  \/ \E i \in 1..InvSize : Pickup("p1", i, "A")

SpecLedger == InitOnline /\ [][NextLedger]_vars

\* removeItemsFromInventory on its own: the first player's container holds
\* anything up to MaxAmount per slot, and a script removes from it.
RemoveSlots == {NoItem} \cup {Item(t, n) : t \in Types, n \in 1..MaxAmount}

InitRemove ==
  /\ listeners = << >>
  /\ playerCache = << >>
  /\ systemIntervalId = Null
  /\ systemIntervalTick = DEFAULT_TICK
  /\ tasks = << >>
  /\ nextHandle = 1
  /\ inv \in {[p \in PlayerSet |-> IF p = "p1" THEN c ELSE EmptyContainer] :
               c \in [1..InvSize -> RemoveSlots]}
  /\ online = {"p1"}
  /\ sinceFired = << >>
  /\ records = << >>
  /\ log = << >>
  /\ last = [op |-> "init", threw |-> FALSE]
  /\ away = {}
  /\ bbListeners = << >>
  /\ subscriptions = 1

\* removeItemsFromInventory(typeId, amountToRemove, inventory) is called on the
\* first player's container; the host rejects the write to failSlot, if any.
Remove(typeId, amountToRemove, failSlot) ==
  /\ \E r \in {removeItemsFromInventory(typeId, amountToRemove, inv["p1"], failSlot)} :
       /\ inv' = [inv EXCEPT !["p1"] = r.inventory]
       /\ last' = [op |-> "remove", threw |-> r.threw, typeId |-> typeId,
                   amountToRemove |-> amountToRemove, failSlot |-> failSlot,
                   before |-> inv["p1"]]
  /\ records' = << >>
  /\ log' = << >>
  /\ UNCHANGED << listeners, playerCache, systemIntervalId, systemIntervalTick,
                  tasks, nextHandle, online, sinceFired, away,
                  bbListeners, subscriptions >>

\* snapshotInventory(inventory) is called on the first player's container and
\* on the container with its slots in the order perm.
Snapshot(perm) ==
  /\ last' = [op |-> "snapshot", threw |-> FALSE, perm |-> perm,
              result |-> snapshotInventory(inv["p1"]),
              permuted |-> snapshotInventory([i \in 1..InvSize |-> inv["p1"][perm[i]]])]
  /\ records' = << >>
  /\ log' = << >>
  /\ UNCHANGED << listeners, playerCache, systemIntervalId, systemIntervalTick,
                  tasks, nextHandle, inv, online, sinceFired, away,
                  bbListeners, subscriptions >>

NextSnapshot == \E perm \in Permutations(1..InvSize) : Snapshot(perm)

SpecSnapshot == InitRemove /\ [][NextSnapshot]_vars

NextRemove ==
  \E typeId \in Types, amountToRemove \in 1..(InvSize * MaxAmount + 1),
     failSlot \in 0..InvSize :
    Remove(typeId, amountToRemove, failSlot)

SpecRemove == InitRemove /\ [][NextRemove]_vars

\* httpReq on its own.  The configurations: with or without a url, a method in
\* any case or none of the five, a body or data, and headers.
Urls == {Str("https://a"), Str("https://b")}
Methods == {GET, Chars(<<"g", "e", "t">>), Chars(<<"P", "o", "s", "t">>),
            Chars(<<"p", "u", "t">>), Chars(<<"d", "e", "l", "e", "t", "e">>),
            HEAD, Chars(<<"P", "A", "T", "C", "H">>)}
Bodies == {Str("text"), Object}
HeaderSets == {Headers(<< >>),
               Headers(<<[key |-> "content-type", value |-> Str("text/plain")]>>),
               Headers(<<[key |-> "X-A", value |-> Str("1")]>>)}
Configs ==
  [url : Urls \cup {Str(""), Absent}, method : Methods \cup {Absent},
   body : Bodies \cup {JsNull, Absent}, data : {Str("text"), Absent},
   headers : HeaderSets \cup {Absent}]

\* The calls scripts make.
Calls ==
  [op : {"call"}, threw : {FALSE}, helper : {"httpReq"}, url : {Absent},
   body : {Absent}, config : Configs, response : Responses]
  \cup
  [op : {"call"}, threw : {FALSE}, helper : {"get", "delete", "head"},
   url : Urls \cup {Str("")}, body : {Absent}, config : Configs,
   response : Responses]
  \cup
  [op : {"call"}, threw : {FALSE}, helper : {"post", "put"},
   url : Urls \cup {Str("")}, body : Bodies, config : Configs,
   response : Responses]

InitHttp ==
  /\ listeners = << >>
  /\ playerCache = << >>
  /\ systemIntervalId = Null
  /\ systemIntervalTick = DEFAULT_TICK
  /\ tasks = << >>
  /\ nextHandle = 1
  /\ inv = [p \in PlayerSet |-> EmptyContainer]
  /\ online = {}
  /\ sinceFired = << >>
  /\ records = << >>
  /\ log = << >>
  /\ last \in Calls
  /\ away = {}
  /\ bbListeners = << >>
  /\ subscriptions = 1

NextHttp == Http

SpecHttp == InitHttp /\ [][NextHttp]_vars

\* blockBreak.js on its own: scripts register callbacks, players break blocks.
NextBreak ==
  \/ \E cb \in CallbackArgs :
       Len(bbListeners) < BreakListeners /\ BreakListen(cb)
  \/ \E event \in Events, does \in [1..Len(bbListeners) -> BreakBehaviours],
        commandFails \in BOOLEAN :
       BreakBlock(event, does, commandFails)

SpecBreak == Init /\ [][NextBreak]_vars

(* ------------------------------------------------------------------ *)
(* Properties of the scheduler                                         *)
(* ------------------------------------------------------------------ *)

\* The recurring tasks created by runInterval and not yet cancelled.
ActiveTasks == DOMAIN tasks

\* Everything but the observer's record of the last operation.
progvars == << listeners, playerCache, systemIntervalId, systemIntervalTick, tasks,
               nextHandle, inv, online, sinceFired >>

\* C1: after any sequence of listen() calls, valid or rejected, made by a
\* script or from inside a listener callback during a poll, interleaved with
\* polls, at most one recurring task is active.
C1_AtMostOnePoll == Cardinality(ActiveTasks) <= 1

\* A poll during which a callback registered the listener with the smallest
\* period so far, so that the poll was restarted from inside its own run.
C1_RestartedInsidePoll ==
  /\ last.op = "poll"
  /\ \E k \in 1..Len(log) : log[k].did = "listen"
  /\ Len(listeners) >= 2
  /\ listeners[Len(listeners)].tick < DEFAULT_TICK
  /\ \A i \in 1..(Len(listeners) - 1) : listeners[i].tick >= DEFAULT_TICK
  /\ nextHandle = 3
  /\ Cardinality(ActiveTasks) = 1

\* The smallest period of the registered listeners.
MinPeriod(ls) ==
  CHOOSE m \in {ls[i].tick : i \in 1..Len(ls)} :
    \A i \in 1..Len(ls) : m <= ls[i].tick

\* C2: the active period is the minimum period over the registered
\* listeners, and the default when no listener is registered.
C2_ActivePeriodIsMinimum ==
  IF listeners = << >>
    THEN systemIntervalTick = DEFAULT_TICK
    ELSE systemIntervalTick = MinPeriod(listeners)

\* The arguments listen accepts: a function, and no period or an integer >= 1.
ValidArgs(cb, tickArg) ==
  /\ cb = "function"
  /\ tickArg.given => (tickArg.twice % 2 = 0 /\ tickArg.twice \div 2 >= 1)

\* C6: listen fails exactly when the callback is no function or the period is
\* no integer >= 1, and a failed call changes nothing: no listener is added,
\* the active period stays, no recurring task is created or cancelled.
C6_RejectedListenChangesNothing ==
  [][last'.op = "listen" =>
       \A cb \in CallbackArgs, tickArg \in TickArgs :
         Listen(cb, tickArg) =>
           IF ValidArgs(cb, tickArg)
             THEN ~last'.threw /\ Len(listeners') = Len(listeners) + 1
             ELSE last'.threw /\ UNCHANGED progvars]_vars

\* A call rejected while the poll is running and listeners are registered.
C6_RejectedWhileRunning ==
  /\ last.op = "listen"
  /\ last.threw
  /\ listeners # << >>
  /\ systemIntervalId # Null

\* The poll is Running: a handle is held, and the host runs its task.
Running == systemIntervalId # Null /\ systemIntervalId \in DOMAIN tasks

\* C13: the poll is Idle when the module is loaded and stays Idle until a
\* listen() call succeeds; it is Running when that call returns, and after
\* every later operation (a registration, valid or rejected, a restart, a
\* poll) it is Running still.
C13_NeverBackToIdle ==
  [][/\ last.op = "init" => systemIntervalId = Null
     /\ (last'.op = "listen" /\ ~last'.threw) => Running'
     /\ Running => Running'
     /\ (systemIntervalId = Null /\ ~(last'.op = "listen" /\ ~last'.threw))
          => systemIntervalId' = Null]_vars

\* A poll in which a callback threw has run, and the poll is Running.
C13_RunningAfterThrowingPoll ==
  /\ last.op = "poll"
  /\ last.threw
  /\ Running

\* The period a successful listen(cb, tickArg) registers.
PeriodOf(tickArg) == IF tickArg.given THEN tickArg.twice \div 2 ELSE DEFAULT_TICK

\* C14: while the poll is Running, a successful listen(callback, p) restarts
\* it exactly when p is smaller than the active period: the old task is
\* cancelled, the one task there is afterwards is new and runs at period p;
\* otherwise the handle, the task and the active period stay; in both cases a
\* listener with period p and counter 0 is appended.
C14_RestartIffSmaller ==
  [][last'.op = "listen" =>
       \A cb \in CallbackArgs, tickArg \in TickArgs :
         (Listen(cb, tickArg) /\ ~last'.threw /\ Running) =>
           LET p == PeriodOf(tickArg) IN
           /\ listeners' = Append(listeners, [tick |-> p, counter |-> 0])
           /\ IF p < systemIntervalTick
                THEN /\ systemIntervalId' # systemIntervalId
                     /\ systemIntervalId \notin DOMAIN tasks'
                     /\ DOMAIN tasks' = {systemIntervalId'}
                     /\ tasks'[systemIntervalId'] = [period |-> p, elapsed |-> 0]
                     /\ systemIntervalTick' = p
                ELSE UNCHANGED << systemIntervalId, systemIntervalTick, tasks >>]_vars

\* A listener of period 5 was registered after one of period 10 whose counter
\* had grown: the poll was restarted at period 5.
C14_RestartedAtSmallerPeriod ==
  /\ last.op = "listen"
  /\ ~last.threw
  /\ Len(listeners) = 2
  /\ listeners[1].tick = DEFAULT_TICK
  /\ listeners[1].counter >= DEFAULT_TICK
  /\ listeners[2] = [tick |-> 5, counter |-> 0]
  /\ Running
  /\ tasks[systemIntervalId] = [period |-> 5, elapsed |-> 0]

\* C15: while the poll is Running, the period its task was scheduled at is
\* the active period, and no listener's period is smaller.
C15_TaskPeriodIsActivePeriod ==
  systemIntervalId # Null =>
    /\ systemIntervalId \in DOMAIN tasks
    /\ tasks[systemIntervalId].period = systemIntervalTick
    /\ \A i \in 1..Len(listeners) : systemIntervalTick <= listeners[i].tick

\* Listeners of period 20 and 5 are registered, in this order: the task runs
\* at 5, where it ran at 10 before the second registration.
C15_RunsAtSmallest ==
  /\ Len(listeners) = 2
  /\ listeners[1].tick = 20
  /\ listeners[2].tick = 5
  /\ Running
  /\ tasks[systemIntervalId].period = 5
  /\ nextHandle = 3

(* ------------------------------------------------------------------ *)
(* Properties of the fan-out                                           *)
(* ------------------------------------------------------------------ *)

\* Listener j is due when the poll taken now reaches its fan-out.
Due(j) == listeners[j].counter + systemIntervalTick >= listeners[j].tick

\* Invocation m of the poll just taken hands listener j the record of invocation k.
SameRecord(lg, k, m, j) ==
  /\ lg[m].listener = j
  /\ lg[m].player = lg[k].player
  /\ lg[m].typeId = lg[k].typeId
  /\ lg[m].amount = lg[k].amount

\* C8: when a listener's remove() meets a container-write failure, the
\* failure is caught inside remove(), the callback returns, and the next
\* listener that is due for the same gain record is invoked with it in the
\* same poll.
C8_RemoveFailureIsCaught ==
  [][\A k \in 1..Len(log') :
       LET i == log'[k].listener IN
       (/\ log'[k].writeFailed
        /\ i < Len(listeners)
        /\ Due(i + 1)
        /\ \A m \in 1..(k - 1) : log'[m].listener # i + 1)
       => /\ k < Len(log')
          /\ SameRecord(log', k, k + 1, i + 1)]_vars

\* Two listeners were invoked with the same record, and the first one's
\* remove() failed after it had cleared a slot.
C8_SecondInvokedAfterFailure ==
  /\ Len(log) >= 2
  /\ log[1].listener = 1
  /\ log[1].writeFailed
  /\ log[1].amount = 2
  /\ SameRecord(log, 1, 2, 2)
  /\ inv[log[1].player][1] = NoItem
  /\ inv[log[1].player][2] # NoItem

\* The amount of type t in the slots before slot i of container c.
RECURSIVE Before(_, _, _)
Before(c, t, i) ==
  IF i <= 1 THEN 0
  ELSE Before(c, t, i - 1)
       + (IF c[i - 1] # NoItem /\ c[i - 1].typeId = t THEN c[i - 1].amount ELSE 0)

\* The gains a poll taken now detects: for every online player the types of
\* which the container holds more than the cached snapshot says, with the
\* difference.
Held(p, t) == Before(inv[p], t, InvSize + 1)

Cached(p, t) ==
  IF p \in DOMAIN playerCache /\ \E k \in 1..Len(playerCache[p]) : playerCache[p][k].typeId = t
    THEN LET k == CHOOSE j \in 1..Len(playerCache[p]) : playerCache[p][j].typeId = t
         IN playerCache[p][k].amount
    ELSE 0

Gains ==
  {r \in [player : online, typeId : Types, amount : 1..(InvSize * MaxStack)] :
     r.amount = Held(r.player, r.typeId) - Cached(r.player, r.typeId)}

\* The invocations of the poll just taken that hand listener i the record r.
Deliveries(lg, i, r) ==
  {m \in 1..Len(lg) :
     /\ lg[m].listener = i
     /\ lg[m].player = r.player
     /\ lg[m].typeId = r.typeId
     /\ lg[m].amount = r.amount}

PollStep == last'.op = "poll"

\* C3: in a poll that detects several gains (no callback throwing), every
\* listener whose counter reaches its period in that poll is invoked once for
\* each of the gain records.
C3_OncePerRecord ==
  [][(PollStep /\ ~last'.threw /\ Cardinality(Gains) >= 2)
       => \A i \in 1..Len(listeners) :
            Due(i) => \A r \in Gains : Cardinality(Deliveries(log', i, r)) = 1]_vars

\* C9: a callback that throws stops nothing but itself: every listener that is
\* due is still invoked for every gain record of the poll, and the cache entry
\* of every online player holds the snapshot the poll took.
C9_ThrowIsIsolated ==
  [][(PollStep /\ \E k \in 1..Len(log') : log'[k].did = "throw")
       => /\ \A p \in online :
               /\ p \in DOMAIN playerCache'
               /\ playerCache'[p] = snapshotInventory(inv[p])
          /\ \A r \in Gains :
               \E i \in 1..Len(listeners) : Deliveries(log', i, r) # {}]_vars

\* C10: the gain records of a poll are, for every online player, exactly one
\* record per type of which the container holds more than the cached snapshot
\* (nothing, where the player or the type is not cached), with the difference
\* as the amount.
C10_RecordsAreTheIncreases ==
  [][PollStep
       => /\ Len(records') = Cardinality(Gains)
          /\ {records'[k] : k \in 1..Len(records')} = Gains]_vars

\* C4: once a poll has invoked a listener (no callback throwing), the listener
\* has been handed everything the polls have detected since its registration:
\* what was detected while its counter was below its period came with it.
C4_NothingOwedAfterFiring ==
  [][(PollStep /\ ~last'.threw)
       => \A k \in 1..Len(log') : sinceFired'[log'[k].listener].owed = 0]_vars

\* C5: with listeners of the periods 20, 10 and 5 registered the poll runs
\* every 5 ticks; a listener is invoked only at a poll where its counter has
\* reached its period, its counter is 0 after that poll, and it is never
\* invoked again less than its period after its last invocation.
C5_NeverTwiceWithinPeriod ==
  [][/\ {listeners[i].tick : i \in 1..Len(listeners)} = Ticks
          => systemIntervalTick = TickStep
     /\ PollStep
          => \A k \in 1..Len(log') :
               LET i == log'[k].listener IN
               /\ Due(i)
               /\ listeners'[i].counter = 0
               /\ log'[k].again => log'[k].age >= listeners[i].tick]_vars

\* C17: after a poll that ran to completion the cache entry of every player
\* who was online holds, for every type, what the player's container held
\* when the poll took its snapshot, whether or not a listener was invoked;
\* the entries of the other players are as they were.
C17_CacheIsTheSnapshotTaken ==
  [][(PollStep /\ ~last'.threw)
       => \A p \in PlayerSet :
            IF p \in online
              THEN /\ p \in DOMAIN playerCache'
                   /\ \A t \in Types : Cached(p, t)' = Held(p, t)
                   /\ \A k \in 1..Len(playerCache'[p]) :
                        Held(p, playerCache'[p][k].typeId) > 0
              ELSE /\ p \in DOMAIN playerCache' <=> p \in DOMAIN playerCache
                   /\ p \in DOMAIN playerCache => playerCache'[p] = playerCache[p]]_vars

\* A poll detected a gain of the first player while no listener was due, and
\* cached it; the second player, cached earlier, was not online.
C17_CachedThoughNobodyFired ==
  /\ last.op = "poll"
  /\ ~last.threw
  /\ records # << >>
  /\ log = << >>
  /\ playerCache["p1"] = <<Item("A", 1)>>
  /\ "p2" \notin online
  /\ "p2" \in DOMAIN playerCache

\* The gain records of the poll just taken that are player p's.
RecordsOf(rs, p) == {rs[k] : k \in {j \in 1..Len(rs) : rs[j].player = p}}

\* C18: no step removes a cache entry, and none changes the entry of a player
\* who is not online; so the first poll (running to completion) that sees a
\* player who was away for some polls produces for that player the records of
\* the increases over the snapshot cached before the player left.
C18_EntryOutlivesAbsence ==
  [][/\ DOMAIN playerCache \subseteq DOMAIN playerCache'
     /\ \A p \in DOMAIN playerCache \ online : playerCache'[p] = playerCache[p]
     /\ (PollStep /\ ~last'.threw)
          => \A p \in last'.returned :
               /\ p \in DOMAIN playerCache
               /\ RecordsOf(records', p) = {r \in Gains : r.player = p}]_vars

\* The second player was away during a poll and is back holding the item the
\* cache knows of: the poll that sees the player again reports nothing for it.
C18_ReturnedWithKnownItem ==
  /\ last.op = "poll"
  /\ ~last.threw
  /\ "p2" \in last.returned
  /\ inv["p2"][1] = Item("A", 1)
  /\ RecordsOf(records, "p2") = {}

\* C20: when a listener has called remove() for a gain record (every write
\* succeeding, no callback throwing), the baseline the poll leaves for that
\* player and type is what the container holds after the removal, so that
\* the m items gained next are reported as a gain of m by the next poll.
C20_BaselineReflectsRemoval ==
  [][(PollStep /\ ~last'.threw /\ \A k \in 1..Len(log') : ~log'[k].writeFailed)
       => \A k \in 1..Len(log'), p \in PlayerSet, t \in Types :
            (log'[k].did = "remove" /\ log'[k].player = p /\ log'[k].typeId = t)
              => Cached(p, t)' = Held(p, t)']_vars

\* C21: however many listeners call remove() for a gain record, the player
\* holds after the poll no less of the record's type than the previous
\* snapshot says: at most the gained items are taken away.
C21_RemoveTakesOnlyTheGain ==
  [][PollStep
       => \A r \in Gains :
            Held(r.player, r.typeId)' >= Cached(r.player, r.typeId)]_vars

\* C16: a poll (no callback throwing) adds the active period once to the
\* counter of every listener it does not invoke, and when the poll is over
\* every listener's counter is the number of host ticks that have passed since
\* the listener was last invoked, or registered (as far as the stopwatch
\* counts).
C16_CounterIsElapsedTicks ==
  [][(PollStep /\ ~last'.threw)
       => \A i \in 1..Len(listeners) :
            /\ (\A k \in 1..Len(log') : log'[k].listener # i)
                 => listeners'[i].counter = listeners[i].counter + systemIntervalTick
            /\ sinceFired'[i].age < MaxAge
                 => listeners'[i].counter = sinceFired'[i].age]_vars

(* ------------------------------------------------------------------ *)
(* Properties of removeItemsFromInventory                              *)
(* ------------------------------------------------------------------ *)

\* What slot i of container c holds after n items of type t have been taken
\* from the matching slots in ascending order.
Taken(c, t, n, i) ==
  IF c[i] = NoItem \/ c[i].typeId # t \/ Before(c, t, i) >= n THEN c[i]
  ELSE IF c[i].amount <= n - Before(c, t, i) THEN NoItem
  ELSE Item(t, c[i].amount - (n - Before(c, t, i)))

RemoveStep == last'.op = "remove"

\* C7 (every write succeeding): the removal does not fail, and leaves in every
\* slot what taking n items of the type in ascending slot order leaves there;
\* the amount removed is the smaller of n and the amount held.
C7_RemovesInSlotOrder ==
  [][(RemoveStep /\ last'.failSlot = 0)
       => LET c == inv["p1"]
              t == last'.typeId
              n == last'.amountToRemove
              total == Before(c, t, InvSize + 1)
          IN /\ ~last'.threw
             /\ \A i \in 1..InvSize : inv'["p1"][i] = Taken(c, t, n, i)
             /\ Before(inv'["p1"], t, InvSize + 1)
                  = total - (IF n < total THEN n ELSE total)]_vars

\* C7 as stated, for every container, whether or not the host accepts every
\* write: the removal does not fail and leaves what taking n items in
\* ascending slot order leaves.
C7_RemovesFromEveryContainer ==
  [][RemoveStep
       => /\ ~last'.threw
          /\ \A i \in 1..InvSize :
               inv'["p1"][i] = Taken(inv["p1"], last'.typeId, last'.amountToRemove, i)]_vars

\* A removal that cleared the first slot, decremented the second and stopped.
C7_ClearedThenDecremented ==
  /\ last.op = "remove"
  /\ ~last.threw
  /\ last.failSlot = 0
  /\ last.before[1] # NoItem
  /\ last.before[1].typeId = last.typeId
  /\ last.before[1].amount < last.amountToRemove
  /\ inv["p1"][1] = NoItem
  /\ last.before[2] # NoItem
  /\ last.before[2].typeId = last.typeId
  /\ inv["p1"][2] = Item(last.typeId, 1)

(* ------------------------------------------------------------------ *)
(* Properties of blockBreak.js                                         *)
(* ------------------------------------------------------------------ *)

BreakStep == last'.op = "break"

\* C11: for every block-break event every callback registered before it is
\* invoked exactly once, in registration order, with the record of that event;
\* restore() issues the setblock command of that event, and its failure is
\* caught; one handler is subscribed, however many callbacks are registered.
C11_EveryListenerOnceInOrder ==
  [][BreakStep
       => /\ subscriptions = 1
          /\ Len(log') = Len(bbListeners)
          /\ \A k \in 1..Len(log') :
               /\ log'[k].listener = k
               /\ log'[k].data = BreakData(last'.event)
          /\ \A c \in 1..Len(last'.commands) :
               /\ last'.commands[c].setblock = last'.event.location
               /\ last'.commands[c].blockId = last'.event.brokenBlockPermutation
          /\ (\A k \in 1..Len(log') : log'[k].did # "throw") => ~last'.threw]_vars

(* ------------------------------------------------------------------ *)
(* Properties of httpReq                                               *)
(* ------------------------------------------------------------------ *)

HttpStep == last'.op = "http"

\* The method of the host's enumeration a helper is named after.
HelperMethod(helper) ==
  CASE helper = "get" -> "Get"
    [] helper = "post" -> "Post"
    [] helper = "put" -> "Put"
    [] helper = "delete" -> "Delete"
    [] helper = "head" -> "Head"

\* Two strings are the same but for the case of their letters.
SameButCase(a, b) ==
  /\ Len(a.chars) = Len(b.chars)
  /\ \A i \in 1..Len(a.chars) :
       \/ a.chars[i] = b.chars[i]
       \/ \E j \in 1..Len(LowerCase) :
            {a.chars[i], b.chars[i]} = {LowerCase[j], UpperCase[j]}

\* C12: called with a url and any configuration, each helper hands the
\* transport a request with the method it is named after and the url it was
\* given; httpReq(config) maps the method onto the five methods whatever the
\* case of its letters, and uses Get for any other method.
C12_HelperMethodAndUrl ==
  [][HttpStep =>
       IF last'.helper = "httpReq"
         THEN last'.request.sent =>
                LET m == IF last'.config.method = Absent THEN GET
                         ELSE last'.config.method
                IN last'.request.method =
                     (IF SameButCase(m, GET) THEN "Get"
                      ELSE IF SameButCase(m, POST) THEN "Post"
                      ELSE IF SameButCase(m, PUT) THEN "Put"
                      ELSE IF SameButCase(m, DELETE) THEN "Delete"
                      ELSE IF SameButCase(m, HEAD) THEN "Head"
                      ELSE "Get")
         ELSE last'.url # Str("") =>
                /\ last'.request.sent
                /\ last'.request.method = HelperMethod(last'.helper)
                /\ last'.request.url = last'.url]_vars

(* ------------------------------------------------------------------ *)
(* Properties of snapshotInventory                                     *)
(* ------------------------------------------------------------------ *)

SnapshotStep == last'.op = "snapshot"

\* The entries of a map, whatever their order.
Entries(m) == {m[k] : k \in 1..Len(m)}

\* C19: the snapshot of a container has one entry for every type that occurs
\* in a slot and no other, the amount of an entry is the sum of the amounts
\* of the slots of its type, the entries are the same whatever the order of
\* the slots, an empty container gives an empty map, and the container is
\* left as it was.
C19_SnapshotSumsPerType ==
  [][SnapshotStep
       => LET c == inv["p1"]
              m == last'.result
          IN /\ Entries(m) =
                  {Item(t, Before(c, t, InvSize + 1)) :
                     t \in {u \in Types : \E i \in 1..InvSize : c[i] # NoItem /\ c[i].typeId = u}}
             /\ Len(m) = Cardinality(Entries(m))
             /\ Entries(last'.permuted) = Entries(m)
             /\ Len(last'.permuted) = Len(m)
             /\ c = EmptyContainer => m = EmptyMap
             /\ inv' = inv]_vars

\* Two stacks of one type, of different amounts, were summed.
C19_TwoStacksSummed ==
  /\ last.op = "snapshot"
  /\ inv["p1"] = <<Item("A", 1), Item("A", 2)>>
  /\ last.result = <<Item("A", 3)>>

====
